---- MODULE Spec2Model ----
(***************************************************************************)
(* A model of src/error.js: the stack-trace masking functions (scrubStack, *)
(* fillStackLines, maskParserStack, maskStack, maskStackLines) and the     *)
(* Proxy returned by ErrorUtils.maskStackTrace.                            *)
(*                                                                         *)
(* A JavaScript string is a sequence of one-character strings; "\n" is the *)
(* line terminator.  An array of lines is a sequence of such strings, in   *)
(* which the value undefined is the marker `undefined`.                    *)
(***************************************************************************)
EXTENDS Integers, Sequences, FiniteSets, TLC

(***************************************************************************)
(* JavaScript values and string primitives                                 *)
(***************************************************************************)
NL == "\n"

\* the value undefined (no string: strings hold one-character elements)
undefined == <<"undefined">>

Digits == {"0", "1", "2", "3", "4", "5", "6", "7", "8", "9"}

IsDigit(c) == c \in Digits

DigitVal(c) ==
  CASE c = "0" -> 0 [] c = "1" -> 1 [] c = "2" -> 2 [] c = "3" -> 3
    [] c = "4" -> 4 [] c = "5" -> 5 [] c = "6" -> 6 [] c = "7" -> 7
    [] c = "8" -> 8 [] c = "9" -> 9

DigitChar(n) ==
  CASE n = 0 -> "0" [] n = 1 -> "1" [] n = 2 -> "2" [] n = 3 -> "3"
    [] n = 4 -> "4" [] n = 5 -> "5" [] n = 6 -> "6" [] n = 7 -> "7"
    [] n = 8 -> "8" [] n = 9 -> "9"

Min(S) == CHOOSE m \in S : \A n \in S : m <= n

Max(S) == CHOOSE m \in S : \A n \in S : m >= n

\* +"<digits>": the number a string of decimal digits denotes
RECURSIVE ToNumber(_)
ToNumber(ds) ==
  IF Len(ds) = 0 THEN 0
  ELSE 10 * ToNumber(SubSeq(ds, 1, Len(ds) - 1)) + DigitVal(ds[Len(ds)])

\* String(n) for a non-negative integer n
RECURSIVE NumToString(_)
NumToString(n) ==
  IF n < 10 THEN <<DigitChar(n)>>
  ELSE NumToString(n \div 10) \o <<DigitChar(n % 10)>>

\* String.prototype.split("\n")
RECURSIVE split(_)
split(s) ==
  IF \A i \in 1..Len(s) : s[i] # NL THEN <<s>>
  ELSE LET i == Min({j \in 1..Len(s) : s[j] = NL})
       IN  <<SubSeq(s, 1, i - 1)>> \o split(SubSeq(s, i + 1, Len(s)))

\* Array.prototype.join("\n"): an undefined element joins as the empty string
RECURSIVE join(_)
join(lines) ==
  LET str(x) == IF x = undefined THEN <<>> ELSE x
  IN  IF Len(lines) = 0 THEN <<>>
      ELSE IF Len(lines) = 1 THEN str(lines[1])
      ELSE str(lines[1]) \o <<NL>> \o join(Tail(lines))

\* String.prototype.includes
includes(s, pat) ==
  \E i \in 0..(Len(s) - Len(pat)) : SubSeq(s, i + 1, i + Len(pat)) = pat

\* String.prototype.startsWith
startsWith(s, pat) ==
  Len(pat) <= Len(s) /\ SubSeq(s, 1, Len(pat)) = pat

\* String.prototype.indexOf of a single character: 0-based, -1 when absent
indexOf(s, c) ==
  IF \E i \in 1..Len(s) : s[i] = c
  THEN Min({i \in 1..Len(s) : s[i] = c}) - 1
  ELSE -1

\* String.prototype.substr(start, length), start 0-based; a negative start
\* counts from the end
substr(s, start, length) ==
  LET size == Len(s)
      from == IF start < 0 THEN (IF size + start > 0 THEN size + start ELSE 0)
              ELSE start
      room == size - from
      n    == IF length < room THEN length ELSE room
  IN  IF n <= 0 THEN <<>> ELSE SubSeq(s, from + 1, from + n)

\* String.prototype.lastIndexOf(search, position): the position is clamped to
\* 0..length, so a negative position still looks at index 0
lastIndexOf(s, search, position) ==
  LET pos   == IF position < 0 THEN 0 ELSE position
      start == IF pos > Len(s) THEN Len(s) ELSE pos
      hits  == {k \in 0..start :
                  /\ k + Len(search) <= Len(s)
                  /\ SubSeq(s, k + 1, k + Len(search)) = search}
  IN  IF hits = {} THEN -1 ELSE Max(hits)

\* " ".repeat(n)
repeat(n) == [i \in 1..n |-> " "]

\* the last index of the run of digits that starts at index i (i - 1 if none)
DigitEnd(s, i) ==
  IF i > Len(s) \/ ~IsDigit(s[i]) THEN i - 1
  ELSE Max({j \in i..Len(s) : \A k \in i..j : IsDigit(s[k])})

(***************************************************************************)
(* The regular expressions.  exec gives [found, index, last, groups]:     *)
(* index and last are the 1-based bounds of the whole match.               *)
(***************************************************************************)
NoMatch == [found |-> FALSE]

\* /:(\d+)/
lineNumRegExp(s) ==
  LET starts == {i \in 1..(Len(s) - 1) : s[i] = ":" /\ IsDigit(s[i + 1])}
  IN  IF starts = {} THEN NoMatch
      ELSE LET i == Min(starts)
           IN  [found |-> TRUE, index |-> i, last |-> DigitEnd(s, i + 1),
                g1 |-> SubSeq(s, i + 1, DigitEnd(s, i + 1))]

\* /(\d+)(?=\)|$)/
columnNumRegExp(s) ==
  LET starts == {i \in 1..Len(s) :
                   /\ IsDigit(s[i])
                   /\ LET e == DigitEnd(s, i)
                      IN  e = Len(s) \/ s[e + 1] = ")"}
  IN  IF starts = {} THEN NoMatch
      ELSE LET i == Min(starts)
           IN  [found |-> TRUE, index |-> i, last |-> DigitEnd(s, i),
                g1 |-> SubSeq(s, i, DigitEnd(s, i))]

\* the lookahead (?=:\d+:\d+\)?$) at index j
LocationTail(s, j) ==
  /\ j <= Len(s)
  /\ s[j] = ":"
  /\ LET e1 == DigitEnd(s, j + 1)
     IN  /\ e1 >= j + 1
         /\ e1 + 1 <= Len(s)
         /\ s[e1 + 1] = ":"
         /\ LET e2 == DigitEnd(s, e1 + 2)
            IN  /\ e2 >= e1 + 2
                /\ \/ e2 = Len(s)
                   \/ e2 + 1 = Len(s) /\ s[e2 + 1] = ")"

At == <<" ", " ", " ", " ", "a", "t", " ">>

\* /(?:^ {4}at |\()(.*?)(?=:\d+:\d+\)?$)/
filePathRegExp(s) ==
  LET \* where the group starts when the match starts at index p (0: no match)
      groupStart(p) ==
        IF p = 1 /\ startsWith(s, At) THEN Len(At) + 1
        ELSE IF s[p] = "(" THEN p + 1
        ELSE 0
      tails(q) == {j \in q..Len(s) : LocationTail(s, j)}
      starts == {p \in 1..Len(s) : groupStart(p) > 0 /\ tails(groupStart(p)) # {}}
  IN  IF starts = {} THEN NoMatch
      ELSE LET p == Min(starts)
               q == groupStart(p)
               j == Min(tails(q))
           IN  [found |-> TRUE, index |-> p, last |-> j - 1,
                g1 |-> SubSeq(s, q, j - 1)]

\* /^(.+?: .+?) \((\d+):(\d+)\)(?:.*?: (.+))?$/
errorMessageRegExp(s) ==
  LET n == Len(s)
      \* the rest of the pattern after group 1 = s[1..k]; e1, e2 end the digits
      e1(k) == DigitEnd(s, k + 3)
      e2(k) == DigitEnd(s, e1(k) + 2)
      \* (?:.*?: (.+)): the first ": " after the ")" that a character follows
      colons(k) == {c \in (e2(k) + 2)..(n - 2) : s[c] = ":" /\ s[c + 1] = " "}
      rest(k) ==
        /\ k + 2 <= n
        /\ s[k + 1] = " "
        /\ s[k + 2] = "("
        /\ e1(k) >= k + 3
        /\ e1(k) + 1 <= n
        /\ s[e1(k) + 1] = ":"
        /\ e2(k) >= e1(k) + 2
        /\ e2(k) + 1 <= n
        /\ s[e2(k) + 1] = ")"
        /\ (colons(k) # {} \/ e2(k) + 1 = n)
      \* group 1 is .+? of length a, then ": ", then .+? up to index k
      ends(a) == {k \in (a + 3)..n : rest(k)}
      firsts == {a \in 1..(n - 2) : s[a + 1] = ":" /\ s[a + 2] = " " /\ ends(a) # {}}
  IN  IF firsts = {} THEN NoMatch
      ELSE LET a == Min(firsts)
               k == Min(ends(a))
           IN  [found |-> TRUE, index |-> 1, last |-> n,
                g1 |-> SubSeq(s, 1, k),
                g2 |-> SubSeq(s, k + 3, e1(k)),
                g3 |-> SubSeq(s, e1(k) + 2, e2(k)),
                g4 |-> IF colons(k) # {}
                       THEN SubSeq(s, Min(colons(k)) + 2, n)
                       ELSE undefined]

(***************************************************************************)
(* Bounds and inputs                                                       *)
(***************************************************************************)
\* longest line of code in a context block or a one-line source buffer
MaxCode == 3

\* largest column of a context block's indicator line
MaxColumn == 3

\* most frame lines after a header line
MaxFrames == 2

\* most reads of the wrapped error
MaxReads == 3

\* most get-trap activations on the call stack at once
MaxDepth == 2

\* __non_webpack_filename__, the path of the engine's own module
InternalFile == <<"/", "e", ".", "j", "s">>

UserFile == <<"/", "a">>

\* "<Kind>: <description>"
KindDesc == <<"E", ":", " ", "m">>

\* a description with a parenthesis of its own
CallDesc == <<"T", ":", " ", "f", " ", "(", "x", ")">>

KindDescs == {KindDesc, CallDesc}

WhileProcessing ==
  <<" ", "w", "h", "i", "l", "e", " ", "p", "r", "o", "c", "e", "s", "s",
    "i", "n", "g", " ", "f", "i", "l", "e", ":", " ">>

\* "<Kind>: <description> (<line>:<column>)[ while processing file: <path>]"
ParseHeader(desc, line, col, path) ==
  desc \o <<" ", "(">> \o line \o <<":">> \o col \o <<")">>
       \o (IF path = undefined THEN <<>> ELSE WhileProcessing \o path)

LineNums == {<<"1">>, <<"2">>, <<"3">>}

ColNums == {<<"0">>, <<"2">>}

Paths == {UserFile, undefined}

ParseHeaders ==
  {ParseHeader(d, l, c, p) :
     d \in KindDescs, l \in LineNums, c \in ColNums, p \in Paths}
     \cup {ParseHeader(KindDesc, <<"1">>, <<"2">>, InternalFile)}

\* "/a:1": a header the host runtime already gave a location
LocHeader == <<"/", "a", ":", "1">>

ReplHeader == <<"r", "e", "p", "l", ":", "1">>

\* a description that holds ":<digits>" and is no location
DigitsHeader == <<"E", ":", " ", "m", ":", "1">>

\* a description that mentions the engine's own module
SelfHeader == <<"E", ":", " ", "n", "o", " ", "/", "e", ".", "j", "s">>

Headers ==
  ParseHeaders
    \cup {KindDesc, CallDesc, LocHeader, ReplHeader, DigitsHeader, SelfHeader}

AnonFrame == <<" ", " ", " ", " ", "a", "t", " ", "/", "a", ":", "1", ":", "2">>

NamedFrame ==
  <<" ", " ", " ", " ", "a", "t", " ", "f", " ", "(", "/", "a", ":", "2", ":",
    "1", ")">>

\* a frame of the engine's own module
SelfFrame ==
  <<" ", " ", " ", " ", "a", "t", " ", "/", "e", ".", "j", "s", ":", "1", ":",
    "1">>

\* a frame of another module, whose path holds the engine's path
SubstringFrame ==
  <<" ", " ", " ", " ", "a", "t", " ", "/", "e", ".", "j", "s", "x", ":", "1",
    ":", "1">>

\* a frame line with ":<digits>" and no path:line:column tail
BrokenFrame == <<" ", " ", " ", " ", "a", "t", " ", "f", ":", "1", " ", "g">>

Frames == {AnonFrame, NamedFrame, SelfFrame, SubstringFrame, BrokenFrame}

FrameSeqs == UNION {[1..k -> Frames] : k \in 0..MaxFrames}

CodeChars == {"a", "b"}

Code == UNION {[1..k -> CodeChars] : k \in 0..MaxCode}

Indicator(col) == repeat(col) \o <<"^">>

\* the source buffer with the compiled buffer, which may be absent
Buffers ==
  { [source |-> <<"a", "b", NL, "b", "a">>, compiled |-> undefined],
    [source |-> <<"a", "b", NL, "b", "a">>,
     compiled |-> <<"b", "a", NL, "a", "b">>],
    [source |-> <<"a", "b">>, compiled |-> <<"b", "a">>] }

\* a header line followed by frame lines
StructInputs ==
  {[stack |-> join(<<h>> \o fr), source |-> b.source, compiled |-> b.compiled] :
     h \in Headers, fr \in FrameSeqs, b \in Buffers}

\* the lines around a context block: the header, and what follows the message
Surroundings ==
  { <<LocHeader, <<>>>>, <<LocHeader, <<NamedFrame>>>>,
    <<ReplHeader, <<NamedFrame>>>> }

\* a context block: location, code, indicator, blank, message
ColumnInputs ==
  {[stack |-> join(<<around[1], g, Indicator(c), <<>>, KindDesc>> \o around[2]),
    source |-> s, compiled |-> undefined] :
     around \in Surroundings, g \in Code, c \in 0..MaxColumn, s \in Code}

DirectInputs == StructInputs \cup ColumnInputs

ProxyStacks ==
  { join(<<KindDesc, NamedFrame>>),
    join(<<ParseHeader(KindDesc, <<"1">>, <<"2">>, UserFile), AnonFrame>>),
    join(<<LocHeader, <<"a", "b">>, Indicator(1), <<>>, KindDesc, NamedFrame>>),
    join(<<LocHeader, <<"b", "a">>, Indicator(1), <<>>, KindDesc, NamedFrame>>),
    DigitsHeader }

ProxyInputs ==
  {[stack |-> t, source |-> <<"a", "b">>, compiled |-> c] :
     t \in ProxyStacks, c \in {undefined, <<"b", "a", NL, "a", "b">>}}

\* a sourceCode argument that is a function
Function == <<"function">>

\* error.message
Message == <<"m">>

(***************************************************************************)
(* State                                                                   *)
(***************************************************************************)
VARIABLES
  caller,           \* "direct": the functions are called; "proxy": maskStackTrace
  rawStack,         \* the diagnostic text the host runtime supplied
  sourceText,       \* the source buffer
  compiledCode,     \* the compiled buffer, or undefined
  producer,         \* the source buffer is supplied as a zero-argument function
  isParseError,     \* utils.isParseError(error)
  pc,               \* "idle", "producer", "loop", "scan", "done", "raised"
  fn,               \* the function called
  round,            \* 1, or 2 when the function is applied to its own result
  stack,            \* the stack argument of the call
  first,            \* the result of round 1
  result,           \* the text the last call returned
  filled,           \* maskStack called fillStackLines
  stackLines, column, clipLength, newColumn, index, clip,
  sourceLineOfCode, stackLineOfCode,      \* the locals of maskStackLines
  steps,            \* matches of the inner loop since the clip was taken
  errorStack,       \* error.stack
  sourceCode,       \* the sourceCode variable the get trap closes over
  trapSet,          \* the trapSet variable the get trap closes over
  depth,            \* get-trap activations on the call stack
  calls,            \* calls of the source producer
  decorated,        \* executions of decorateStackTrace
  stored,           \* assignments to error.stack
  reads,            \* reads of the wrapped error
  stackReads,       \* reads of "stack", from anywhere
  nested,           \* the producer has read the wrapped error
  lastKey,          \* the key of the last read by a consumer
  outcome,          \* of the last read that ended: "returned", "threw"
  value             \* the value the last read returned

inputVars == <<caller, rawStack, sourceText, compiledCode, producer, isParseError>>

loopVars ==
  <<column, clipLength, newColumn, index, clip, sourceLineOfCode,
    stackLineOfCode, steps>>

closureVars ==
  <<sourceCode, trapSet, calls, decorated, reads, stackReads, nested, lastKey>>

vars ==
  <<inputVars, pc, fn, round, stack, first, result, filled, stackLines,
    loopVars, errorStack, closureVars, depth, stored, outcome, value>>

\* the longest run of inner-loop matches the model follows
StepCap == MaxCode + 3

Init ==
  /\ caller \in {"direct", "proxy"}
  /\ \E i \in (IF caller = "direct" THEN DirectInputs ELSE ProxyInputs) :
       /\ rawStack = i.stack
       /\ sourceText = i.source
       /\ compiledCode = i.compiled
  /\ producer \in (IF caller = "direct" THEN {FALSE} ELSE BOOLEAN)
  /\ isParseError \in (IF caller = "direct" THEN {FALSE} ELSE BOOLEAN)
  /\ pc = "idle"
  /\ fn = "none"
  /\ round = 1
  /\ stack = <<>>
  /\ first = <<>>
  /\ result = <<>>
  /\ filled = FALSE
  /\ stackLines = <<>>
  /\ column = 0
  /\ clipLength = 0
  /\ newColumn = 0
  /\ index = 0
  /\ clip = <<>>
  /\ sourceLineOfCode = <<>>
  /\ stackLineOfCode = <<>>
  /\ steps = 0
  /\ errorStack = rawStack
  /\ sourceCode = IF producer THEN Function ELSE sourceText
  /\ trapSet = FALSE
  /\ depth = 0
  /\ calls = 0
  /\ decorated = 0
  /\ stored = 0
  /\ reads = 0
  /\ stackReads = 0
  /\ nested = FALSE
  /\ lastKey = "none"
  /\ outcome = "none"
  /\ value = <<>>

(***************************************************************************)
(* The masking functions                                                   *)
(***************************************************************************)
\* arr[i], i 0-based: undefined outside the array
ElementAt(arr, i) == IF i >= 0 /\ i < Len(arr) THEN arr[i + 1] ELSE undefined

scrubStack(stack_) ==
  join(SelectSeq(split(stack_), LAMBDA line : ~includes(line, InternalFile)))

\* gives [raised, lines]: raised when a regular expression's null result or
\* an undefined buffer is dereferenced
fillStackLines(stackLines_, sourceCode_, compiledCode_) ==
  LET stackFrame == ElementAt(stackLines_, 1)
      \* exec reads undefined as the string "undefined": no ":<digits>" in it
      locMatch == IF stackFrame = undefined THEN NoMatch
                  ELSE lineNumRegExp(stackFrame)
  IN  IF ~locMatch.found THEN [raised |-> FALSE, lines |-> stackLines_]
      ELSE IF \/ ~columnNumRegExp(stackFrame).found
              \/ ~filePathRegExp(stackFrame).found
              \/ compiledCode_ = undefined
      THEN [raised |-> TRUE, lines |-> stackLines_]
      ELSE LET column_  == ToNumber(columnNumRegExp(stackFrame).g1)
               filePath == filePathRegExp(stackFrame).g1
               lineNum  == ToNumber(locMatch.g1)
           IN  [raised |-> FALSE,
                lines  |-> << filePath \o <<":">> \o NumToString(lineNum),
                              ElementAt(split(compiledCode_), lineNum - 1),
                              repeat(column_) \o <<"^">>,
                              <<>> >> \o stackLines_]

\* maskParserStack reading the source line after the one the header names
maskParserStackNextLine(stack_, sourceCode_) ==
  LET stackLines_ == split(scrubStack(stack_))
      parts    == errorMessageRegExp(stackLines_[1])
      desc     == IF parts.found THEN parts.g1 ELSE undefined
      lineNum  == IF parts.found THEN parts.g2 ELSE undefined
      column_  == IF parts.found THEN parts.g3 ELSE undefined
      filePath == IF parts.found THEN parts.g4 ELSE undefined
      head     == IF filePath # undefined
                  THEN << filePath \o <<":">> \o lineNum >>
                  ELSE <<>>
      codeLine == IF lineNum = undefined THEN undefined
                  ELSE ElementAt(split(sourceCode_), ToNumber(lineNum))
      arrow    == repeat(IF column_ = undefined THEN 0 ELSE ToNumber(column_))
                    \o <<"^">>
  IN  join(head \o <<codeLine, arrow, <<>>, desc>> \o Tail(stackLines_))

maskParserStack(stack_, sourceCode_) ==
  LET stackLines_ == split(scrubStack(stack_))
      parts    == errorMessageRegExp(stackLines_[1])
      desc     == IF parts.found THEN parts.g1 ELSE undefined
      lineNum  == IF parts.found THEN parts.g2 ELSE undefined
      column_  == IF parts.found THEN parts.g3 ELSE undefined
      filePath == IF parts.found THEN parts.g4 ELSE undefined
      head     == IF filePath # undefined
                  THEN << filePath \o <<":">> \o lineNum >>
                  ELSE <<>>
      \* undefined - 1 is NaN, which indexes nothing
      codeLine == IF lineNum = undefined THEN undefined
                  ELSE ElementAt(split(sourceCode_), ToNumber(lineNum) - 1)
      \* " ".repeat(undefined) is ""
      arrow    == repeat(IF column_ = undefined THEN 0 ELSE ToNumber(column_))
                    \o <<"^">>
  IN  join(head \o <<codeLine, arrow, <<>>, desc>> \o Tail(stackLines_))

\* a call of a masking function returns text; d is the depth of the get trap
\* that called it, which stores the text in error.stack and returns it
Return(text, d) ==
  /\ result' = text
  /\ IF caller = "proxy"
     THEN /\ errorStack' = text
          /\ stored' = stored + 1
          /\ depth' = d - 1
          /\ pc' = IF d > 1 THEN "producer" ELSE "idle"
          /\ outcome' = "returned"
          /\ value' = text
     ELSE /\ pc' = "done"
          /\ UNCHANGED <<errorStack, stored, depth, outcome, value>>

\* a TypeError leaves the masking function, the get trap and every caller
Throw ==
  /\ IF caller = "proxy"
     THEN pc' = "idle" /\ depth' = 0 /\ outcome' = "threw"
     ELSE pc' = "raised" /\ UNCHANGED <<depth, outcome>>
  /\ UNCHANGED <<result, errorStack, stored, value>>

\* the call goes on at p
Continue(p, d) ==
  /\ pc' = p
  /\ depth' = d
  /\ UNCHANGED <<result, errorStack, stored, outcome, value>>

\* maskStackLines up to its loop
maskStackLines(stackLines_, sourceCode_, d) ==
  LET locMatch == lineNumRegExp(stackLines_[1])
  IN  IF ~locMatch.found
      THEN stackLines' = stackLines_ /\ UNCHANGED loopVars
             /\ Return(join(stackLines_), d)
      ELSE IF Len(stackLines_) < 3
      THEN \* stackLines[2] is undefined
           stackLines' = stackLines_ /\ UNCHANGED loopVars /\ Throw
      ELSE LET lineNum == ToNumber(locMatch.g1)
               lines   == split(sourceCode_)
           IN  /\ column' = indexOf(stackLines_[3], "^")
               /\ sourceLineOfCode' = ElementAt(lines, lineNum - 1)
               /\ stackLineOfCode' = stackLines_[2]
               /\ clipLength' = 6
               /\ newColumn' = -1
               /\ stackLines' =
                    [stackLines_ EXCEPT ![2] = ElementAt(lines, lineNum - 1)]
               /\ steps' = 0
               /\ UNCHANGED <<index, clip>>
               /\ Continue("loop", d)

\* maskStack filling the stack lines whether or not there is compiled code
maskStackAlwaysFills(stack_, sourceCode_, compiledCode_, d) ==
  LET lines0 == split(scrubStack(stack_))
      fill   == ~lineNumRegExp(lines0[1]).found
      got    == IF fill THEN fillStackLines(lines0, sourceCode_, compiledCode_)
                ELSE [raised |-> FALSE, lines |-> lines0]
  IN  /\ filled' = fill
      /\ IF got.raised
         THEN stackLines' = got.lines /\ UNCHANGED loopVars /\ Throw
         ELSE maskStackLines(got.lines, sourceCode_, d)

maskStack(stack_, sourceCode_, compiledCode_, d) ==
  LET lines0 == split(scrubStack(stack_))
      fill   == ~lineNumRegExp(lines0[1]).found /\ compiledCode_ # undefined
      got    == IF fill THEN fillStackLines(lines0, sourceCode_, compiledCode_)
                ELSE [raised |-> FALSE, lines |-> lines0]
  IN  /\ filled' = fill
      /\ IF got.raised
         THEN stackLines' = got.lines /\ UNCHANGED loopVars /\ Throw
         ELSE maskStackLines(got.lines, sourceCode_, d)

\* String.prototype.replace(columnNumRegExp, n)
ReplaceColumn(s, n) ==
  LET m == columnNumRegExp(s)
  IN  IF ~m.found THEN s
      ELSE SubSeq(s, 1, m.index - 1) \o NumToString(n)
             \o SubSeq(s, m.last + 1, Len(s))

\* while (clipLength-- > 1 && newColumn < 0): the test holds, a clip is taken
ClipLoop ==
  /\ pc = "loop"
  /\ clipLength > 1 /\ newColumn < 0
  /\ IF stackLineOfCode = undefined
     THEN UNCHANGED <<stackLines, loopVars>> /\ Throw
     ELSE LET c == substr(stackLineOfCode, column, clipLength - 1)
          IN  /\ clip' = c
              /\ clipLength' =
                   IF clipLength - 1 < Len(c) THEN clipLength - 1 ELSE Len(c)
              /\ index' = column + 1
              /\ steps' = 0
              /\ UNCHANGED <<stackLines, column, newColumn, sourceLineOfCode,
                             stackLineOfCode>>
              /\ Continue("scan", depth)
  /\ UNCHANGED <<inputVars, fn, round, stack, first, filled, closureVars>>

\* while ((index = sourceLineOfCode.lastIndexOf(clip, index - 1)) > -1)
ScanLoop ==
  /\ pc = "scan"
  /\ IF sourceLineOfCode = undefined
     THEN UNCHANGED <<stackLines, loopVars>> /\ Throw
     ELSE LET found == lastIndexOf(sourceLineOfCode, clip, index - 1)
          IN  /\ index' = found
              /\ newColumn' = IF found > -1 THEN found ELSE newColumn
              /\ steps' = IF found > -1 /\ steps < StepCap
                          THEN steps + 1 ELSE steps
              /\ UNCHANGED <<stackLines, column, clipLength, clip,
                             sourceLineOfCode, stackLineOfCode>>
              /\ Continue(IF found > -1 THEN "scan" ELSE "loop", depth)
  /\ UNCHANGED <<inputVars, fn, round, stack, first, filled, closureVars>>

\* the loop's test fails; the rest of maskStackLines, and maskStack's join
ClipDone ==
  /\ pc = "loop"
  /\ ~(clipLength > 1 /\ newColumn < 0)
  /\ clipLength' = clipLength - 1
  /\ UNCHANGED <<column, newColumn, index, clip, sourceLineOfCode,
                 stackLineOfCode, steps>>
  /\ LET dropRepl(ls) ==
           IF startsWith(ls[1], <<"r", "e", "p", "l", ":">>) THEN Tail(ls)
           ELSE ls
     IN  IF newColumn < 0
         THEN LET ls == SubSeq(stackLines, 1, 2)
                          \o SubSeq(stackLines, 4, Len(stackLines))
              IN  stackLines' = dropRepl(ls)
                    /\ Return(join(dropRepl(ls)), depth)
         ELSE IF newColumn < column
         THEN IF Len(stackLines) < 6
              THEN \* stackLines[5] is undefined
                   UNCHANGED stackLines /\ Throw
              ELSE LET ls == [stackLines EXCEPT
                                ![3] = repeat(newColumn) \o <<"^">>,
                                ![6] = ReplaceColumn(stackLines[6], newColumn)]
                   IN  stackLines' = dropRepl(ls)
                         /\ Return(join(dropRepl(ls)), depth)
         ELSE stackLines' = dropRepl(stackLines)
                /\ Return(join(dropRepl(stackLines)), depth)
  /\ UNCHANGED <<inputVars, fn, round, stack, first, filled, closureVars>>

(***************************************************************************)
(* Calls of the functions on a text                                        *)
(***************************************************************************)
CallMaskStack ==
  /\ caller = "direct" /\ pc = "idle"
  /\ fn' = "maskStack"
  /\ stack' = rawStack
  /\ maskStack(rawStack, sourceText, compiledCode, 0)
  /\ UNCHANGED <<inputVars, round, first, closureVars>>

CallMaskParserStack ==
  /\ caller = "direct" /\ pc = "idle"
  /\ fn' = "maskParserStack"
  /\ stack' = rawStack
  /\ Return(maskParserStack(rawStack, sourceText), 0)
  /\ UNCHANGED <<inputVars, round, first, filled, stackLines, loopVars,
                 closureVars>>

CallScrubStack ==
  /\ caller = "direct" /\ pc = "idle"
  /\ fn' = "scrubStack"
  /\ stack' = rawStack
  /\ Return(scrubStack(rawStack), 0)
  /\ UNCHANGED <<inputVars, round, first, filled, stackLines, loopVars,
                 closureVars>>

\* the function is applied again, to the text it returned
Reapply ==
  /\ caller = "direct" /\ pc = "done" /\ round = 1
  /\ fn \in {"maskStack", "maskParserStack"}
  /\ round' = 2
  /\ first' = result
  /\ stack' = result
  /\ IF fn = "maskStack"
     THEN maskStack(result, sourceText, compiledCode, 0)
     ELSE /\ Return(maskParserStack(result, sourceText), 0)
          /\ UNCHANGED <<filled, stackLines, loopVars>>
  /\ UNCHANGED <<inputVars, fn, closureVars>>

(***************************************************************************)
(* ErrorUtils.maskStackTrace: the Proxy's get trap                         *)
(***************************************************************************)
decorateStackTrace == decorated' = decorated + 1

\* the get trap from the assignment to sourceCode on, src the source text
TrapBody(src, d) ==
  /\ sourceCode' = src
  /\ trapSet' = TRUE
  /\ decorateStackTrace
  /\ fn' = IF isParseError THEN "maskParserStack" ELSE "maskStack"
  /\ stack' = errorStack
  /\ IF isParseError
     THEN /\ Return(maskParserStack(errorStack, src), d)
          /\ UNCHANGED <<filled, stackLines, loopVars>>
     ELSE maskStack(errorStack, src, compiledCode, d)
  /\ UNCHANGED calls

\* get(error, key), called at depth d - 1
get(key, d) ==
  IF key = "stack" /\ ~trapSet
  THEN IF sourceCode = Function
       THEN \* sourceCode() is called
            /\ calls' = calls + 1
            /\ Continue("producer", d)
            /\ UNCHANGED <<sourceCode, trapSet, decorated, fn, stack, filled,
                           stackLines, loopVars>>
       ELSE TrapBody(sourceCode, d)
  ELSE \* return error[key]
       /\ outcome' = "returned"
       /\ value' = IF key = "stack" THEN errorStack ELSE Message
       /\ UNCHANGED <<pc, depth, result, errorStack, stored, sourceCode,
                      trapSet, calls, decorated, fn, stack, filled,
                      stackLines, loopVars>>

\* a consumer reads an attribute of the wrapped error
Read ==
  /\ caller = "proxy" /\ pc = "idle"
  /\ reads < MaxReads
  /\ \E key \in {"stack", "message"} :
       /\ lastKey' = key
       /\ stackReads' = IF key = "stack" THEN stackReads + 1 ELSE stackReads
       /\ get(key, 1)
  /\ reads' = reads + 1
  /\ UNCHANGED <<inputVars, round, first, nested>>

\* the source producer reads the stack of the wrapped error it serves
ProducerRead ==
  /\ pc = "producer"
  /\ depth < MaxDepth
  /\ reads < MaxReads
  /\ reads' = reads + 1
  /\ stackReads' = stackReads + 1
  /\ nested' = TRUE
  /\ get("stack", depth + 1)
  /\ UNCHANGED <<inputVars, round, first, lastKey>>

\* the source producer returns the source text
ProducerReturn ==
  /\ pc = "producer"
  /\ TrapBody(sourceText, depth)
  /\ UNCHANGED <<inputVars, round, first, reads, stackReads, nested, lastKey>>

\* the source producer throws (the file cannot be read)
ProducerThrow ==
  /\ pc = "producer"
  /\ Throw
  /\ UNCHANGED <<inputVars, fn, round, stack, first, filled, stackLines,
                 loopVars, closureVars>>

Next ==
  \/ CallMaskStack
  \/ CallMaskParserStack
  \/ CallScrubStack
  \/ Reapply
  \/ ClipLoop
  \/ ScanLoop
  \/ ClipDone
  \/ Read
  \/ ProducerRead
  \/ ProducerReturn
  \/ ProducerThrow

Spec == Init /\ [][Next]_vars

(***************************************************************************)
(* Properties                                                              *)
(***************************************************************************)
Lines(text) == split(text)

\* the lines of a text that do not hold the engine's module path
Kept(text) ==
  SelectSeq(split(text), LAMBDA line : ~includes(line, InternalFile))

\* a call of f on the input text has returned
Returned(f) == caller = "direct" /\ fn = f /\ round = 1 /\ pc = "done"

\* C1: with the source supplied as a producer, over reads that follow one
\* another (none from inside the producer), the producer has been called
\* zero times before the first read of stack, whatever else was read, and
\* exactly once from the first read of stack on.
C1_ProducerOnce ==
  (caller = "proxy" /\ producer /\ ~nested) =>
    /\ stackReads = 0 => calls = 0
    /\ stackReads >= 1 => calls = 1

\* C2: over any reads of one wrapped error, nested ones included, the
\* decoration step (decorateStackTrace, the masking, the assignment to
\* error.stack) runs at most once.
C2_DecoratedOnce ==
  caller = "proxy" => decorated <= 1 /\ stored <= 1

\* C3: maskStack and maskParserStack never raise.
C3_NeverRaises ==
  caller = "direct" => pc # "raised"

\* C4: when the first line of the text is "<Kind>: <description>", with or
\* without a "(<line>:<column>)" suffix, the text maskStack or
\* maskParserStack returns has "<Kind>: <description>" as a line.
C4_HeaderKept ==
  \A f \in {"maskStack", "maskParserStack"} : \A d \in KindDescs :
    ( /\ Returned(f)
      /\ \/ Lines(rawStack)[1] = d
         \/ \E l \in LineNums, c \in ColNums, p \in Paths :
              Lines(rawStack)[1] = ParseHeader(d, l, c, p) )
    => \E i \in 1..Len(Lines(result)) : Lines(result)[i] = d

\* C5: for a clip that is not empty, the inner column-recovery loop finds at
\* most one match per position of the original line, so it ends within
\* length + 1 steps.
C5_ScanBounded ==
  (pc = "scan" /\ sourceLineOfCode # undefined /\ clip # <<>>) =>
    steps <= Len(sourceLineOfCode) + 1

\* C6: for a text that starts with a "<Kind>: <description>" header,
\* applying maskStack or maskParserStack to its own result, with the same
\* buffers, returns that result.
C6_Idempotent ==
  ( /\ caller = "direct" /\ pc = "done" /\ round = 2
    /\ Lines(rawStack)[1] \in KindDescs \cup ParseHeaders )
  => result = first

\* the column C7 states: for the largest length from 6 down to 2 whose
\* substring of the generated line at the column occurs in the original line
\* at or before column + 1, the rightmost such occurrence; -1 if none does
ClaimedColumn(generated, original, col) ==
  LET clipOf(n) == substr(generated, col, n)
      at(n) == {k \in 0..(col + 1) :
                  /\ Len(clipOf(n)) = n
                  /\ k + n <= Len(original)
                  /\ SubSeq(original, k + 1, k + n) = clipOf(n)}
      lengths == {n \in 2..6 : at(n) # {}}
  IN  IF lengths = {} THEN -1 ELSE Max(at(Max(lengths)))

\* C7: when the column-recovery loop has ended, newColumn is the column the
\* claim states (and -1, which removes the indicator line, when no length
\* from 6 down to 2 matches).
C7_ColumnRecovery ==
  ( /\ pc = "loop"
    /\ ~(clipLength > 1 /\ newColumn < 0)
    /\ column >= 0
    /\ stackLineOfCode # undefined
    /\ sourceLineOfCode # undefined )
  => newColumn = ClaimedColumn(stackLineOfCode, sourceLineOfCode, column)

\* a line holds ":<digits>"
HasLineNum(line) ==
  \E i \in 1..(Len(line) - 1) : line[i] = ":" /\ IsDigit(line[i + 1])

IsSelfFrame(line) ==
  /\ startsWith(line, At)
  /\ \E j \in 1..Len(line) :
       LET q == j - Len(InternalFile)
       IN  /\ LocationTail(line, j)
           /\ q >= Len(At) + 1
           /\ SubSeq(line, q, j - 1) = InternalFile
           /\ (q = Len(At) + 1 \/ line[q - 1] = "(")

\* C9: scrubStack removes exactly the frame lines whose path is the engine's
\* own module path; every other line stays, unaltered and in order.
C9_ScrubExact ==
  Returned("scrubStack") =>
    result = join(SelectSeq(Lines(rawStack), LAMBDA line : ~IsSelfFrame(line)))

\* the five lines C10 states for a header, followed by the lines `following`
Spliced(d, l, c, p, following) ==
  join( (IF p = undefined THEN <<>> ELSE << p \o <<":">> \o l >>)
        \o << Lines(sourceText)[ToNumber(l)],
              repeat(ToNumber(c)) \o <<"^">>,
              <<>>,
              d >>
        \o following )

\* the text is a header of these parts, naming a line of the source buffer,
\* followed by other lines
HasHeader(lines, d, l, c, p) ==
  /\ Len(lines) >= 1
  /\ lines[1] = ParseHeader(d, l, c, p)
  /\ ToNumber(l) >= 1
  /\ ToNumber(l) <= Len(Lines(sourceText))

\* C10 as stated, on texts in which only frames of the engine's own module
\* hold its path: the header line becomes the five lines and all following
\* lines are kept unchanged.
C10_ParserSpliceOriginal ==
  \A d \in KindDescs, l \in LineNums, c \in ColNums, p \in Paths :
    ( /\ Returned("maskParserStack")
      /\ HasHeader(Lines(rawStack), d, l, c, p)
      /\ \A i \in 1..Len(Lines(rawStack)) :
           includes(Lines(rawStack)[i], InternalFile)
             => IsSelfFrame(Lines(rawStack)[i]) )
    => result = Spliced(d, l, c, p, Tail(Lines(rawStack)))

\* C10 amended: maskParserStack first drops every line that holds the
\* engine's module path; when the first line left is a header naming a line
\* of the source buffer, it becomes the five lines (four without a path) and
\* the other lines left follow unchanged.
C10_ParserSpliceAmended ==
  \A d \in KindDescs, l \in LineNums, c \in ColNums,
     p \in Paths \cup {InternalFile} :
    ( /\ Returned("maskParserStack")
      /\ HasHeader(Kept(rawStack), d, l, c, p) )
    => result = Spliced(d, l, c, p, Tail(Kept(rawStack)))

\* C10's case: a header with a path and a line of a two-line source buffer,
\* followed by a frame that is kept and one that is dropped
C10_Witness ==
  /\ Returned("maskParserStack")
  /\ HasHeader(Kept(rawStack), CallDesc, <<"2">>, <<"2">>, UserFile)
  /\ Len(Kept(rawStack)) = 2
  /\ Len(Lines(rawStack)) = 3
====
